---- MODULE Spec2Model ----
(***************************************************************************)
(* Model of package openapi (seh-msft/openapi): the data model of          *)
(* openapi.go and Parse, which hands the stream to an encoding/json        *)
(* Decoder and returns the decoded API together with the decoder's error.  *)
(*                                                                         *)
(* Parse has no logic of its own: what it returns is what Decoder.Decode   *)
(* of Go's standard library does with a json-tagged API, and that is what  *)
(* the scanner and the decoding operators below follow.                    *)
(*                                                                         *)
(* The input is modelled at the level of JSON lexemes (tokens): an offset  *)
(* is a number of tokens, not of bytes.  A Go value is modelled as         *)
(*   string  a TLA+ string            bool   a BOOLEAN                     *)
(*   struct  a record keyed by the Go field names                          *)
(*   slice   [isNil, elems]  (a nil slice and an empty one differ)         *)
(*   map     [isNil, entries]  with entries a set of [key, val]            *)
(***************************************************************************)
EXTENDS Integers, Sequences, FiniteSets, TLC

VARIABLES
  input,   \* input[c]: the tokens the io.Reader r of call c delivers
  origin,  \* origin[c]: how input[c] was made (base document and variation)
  pc,      \* pc[c]: where call c of Parse stands
  rd,      \* rd[c]: number of tokens call c has read from r
  dec,     \* dec[d]: decoder d: its buffer, scanner state and scan result
  ret      \* ret[c]: the (api, err) pair call c returned

vars == <<input, origin, pc, rd, dec, ret>>

----------------------------------------------------------------------------
(* The data model: openapi.go lines 16-142.  A struct is its list of       *)
(* fields; each field has the key of its json tag, its Go name and type.   *)

Fld(key, name, type) == [key |-> key, name |-> name, type |-> type]

APIFields ==
  << Fld("openapi", "Version", "string"),
     Fld("info", "Info", "Info"),
     Fld("servers", "Servers", "[]Server"),
     Fld("paths", "Paths", "map[string]map[string]Method"),
     Fld("components", "Components", "map[string]map[string]Type") >>

TypeFields ==
  << Fld("required", "Required", "[]string"),
     Fld("type", "Is", "string"),
     Fld("properties", "Properties", "map[string]Property") >>

PropertyFields ==
  << Fld("type", "Type", "string"),
     Fld("$ref", "Ref", "string"),
     Fld("items", "Items", "Schema"),
     Fld("format", "Format", "string"),
     Fld("nullable", "Nullable", "bool"),
     Fld("enum", "Enums", "[]string") >>

SchemaFields ==
  << Fld("enum", "Enums", "[]string"),
     Fld("items", "Items", "Item"),
     Fld("type", "Type", "string"),
     Fld("$ref", "Ref", "string"),
     Fld("default", "Default", "string") >>

ItemFields ==
  << Fld("enum", "Enums", "[]string"),
     Fld("type", "Type", "string"),
     Fld("$ref", "Ref", "string") >>

InfoFields ==
  << Fld("title", "Title", "string"),
     Fld("version", "Version", "string") >>

ServerFields ==
  << Fld("url", "URL", "string") >>

MethodFieldsSwapped ==
  << Fld("tags", "Tags", "[]string"),
     Fld("summary", "Description", "string"),
     Fld("description", "Summary", "string"),
     Fld("operationId", "OperationID", "string"),
     Fld("parameters", "Parameters", "[]Parameter"),
     Fld("responses", "Responses", "map[string]Response"),
     Fld("requestBody", "RequestBody", "RequestBody") >>

MethodFields ==
  << Fld("tags", "Tags", "[]string"),
     Fld("summary", "Summary", "string"),
     Fld("description", "Description", "string"),
     Fld("operationId", "OperationID", "string"),
     Fld("parameters", "Parameters", "[]Parameter"),
     Fld("responses", "Responses", "map[string]Response"),
     Fld("requestBody", "RequestBody", "RequestBody") >>

RequestBodyFields ==
  << Fld("description", "Description", "string"),
     Fld("content", "Content", "Content"),
     Fld("required", "Required", "bool") >>

ParameterFields ==
  << Fld("name", "Name", "string"),
     Fld("in", "In", "string"),
     Fld("description", "Description", "string"),
     Fld("required", "Required", "bool"),
     Fld("schema", "Schema", "Schema") >>

ResponseFields ==
  << Fld("description", "Description", "string"),
     Fld("content", "Content", "Content") >>

StructTypes ==
  {"API", "Type", "Property", "Schema", "Item", "Info", "Server", "Method",
   "RequestBody", "Parameter", "Response"}

SliceTypes == {"[]string", "[]Server", "[]Parameter"}

MapTypes ==
  {"map[string]map[string]Method", "map[string]Method",
   "map[string]map[string]Type", "map[string]Type", "map[string]Property",
   "map[string]Response", "Content", "map[string]Schema"}

\* reflect.Kind of a type of the data model
Kind(t) ==
  IF t \in StructTypes THEN "struct"
  ELSE IF t \in SliceTypes THEN "slice"
  ELSE IF t \in MapTypes THEN "map"
  ELSE t

Fields(t) ==
  CASE t = "API" -> APIFields
    [] t = "Type" -> TypeFields
    [] t = "Property" -> PropertyFields
    [] t = "Schema" -> SchemaFields
    [] t = "Item" -> ItemFields
    [] t = "Info" -> InfoFields
    [] t = "Server" -> ServerFields
    [] t = "Method" -> MethodFields
    [] t = "RequestBody" -> RequestBodyFields
    [] t = "Parameter" -> ParameterFields
    [] t = "Response" -> ResponseFields

\* the element type of a slice or map type
Elem(t) ==
  CASE t = "[]string" -> "string"
    [] t = "[]Server" -> "Server"
    [] t = "[]Parameter" -> "Parameter"
    [] t = "map[string]map[string]Method" -> "map[string]Method"
    [] t = "map[string]Method" -> "Method"
    [] t = "map[string]map[string]Type" -> "map[string]Type"
    [] t = "map[string]Type" -> "Type"
    [] t = "map[string]Property" -> "Property"
    [] t = "map[string]Response" -> "Response"
    [] t = "Content" -> "map[string]Schema"
    [] t = "map[string]Schema" -> "Schema"

FieldNames(t) == {Fields(t)[i].name : i \in 1..Len(Fields(t))}

FieldNamed(t, n) ==
  Fields(t)[CHOOSE i \in 1..Len(Fields(t)) : Fields(t)[i].name = n]

NilSlice == [isNil |-> TRUE, elems |-> <<>>]
NilMap == [isNil |-> TRUE, entries |-> {}]

\* the zero value of a type: what `var api API` holds
RECURSIVE Zero(_)
Zero(t) ==
  CASE Kind(t) = "string" -> ""
    [] Kind(t) = "bool" -> FALSE
    [] Kind(t) = "slice" -> NilSlice
    [] Kind(t) = "map" -> NilMap
    [] Kind(t) = "struct" ->
         [n \in FieldNames(t) |-> Zero(FieldNamed(t, n).type)]

----------------------------------------------------------------------------
(* The input: a sequence of JSON lexemes.  "ws" is a run of white space,   *)
(* "partial" a lexeme cut off before its end (s says of which sort), "bad" *)
(* a byte that begins no lexeme.                                           *)

Tok(t, s) == [t |-> t, s |-> s]

LB == Tok("{", "")
RB == Tok("}", "")
LK == Tok("[", "")
RK == Tok("]", "")
COLON == Tok(":", "")
COMMA == Tok(",", "")
WS == Tok("ws", "")
BAD == Tok("bad", "")
TStr(s) == Tok("string", s)

ScalarToks == {"string", "number", "true", "false", "null"}

----------------------------------------------------------------------------
(* The errors Parse returns: those of encoding/json's Decoder.Decode      *)
(* (openapi.go line 151).  Only *json.SyntaxError and                      *)
(* *json.UnmarshalTypeError have an Offset field; io.EOF and               *)
(* io.ErrUnexpectedEOF are plain values.                                   *)

Err(kind, hasOffset, offset, value, type) ==
  [kind |-> kind, hasOffset |-> hasOffset, offset |-> offset,
   value |-> value, type |-> type]

NoErr == Err("nil", FALSE, 0, "", "")
ErrEOF == Err("EOF", FALSE, 0, "", "")
ErrUnexpectedEOF == Err("ErrUnexpectedEOF", FALSE, 0, "", "")
SyntaxErrorNoOffset(off) == Err("SyntaxError", FALSE, 0, "", "")
SyntaxError(off) == Err("SyntaxError", TRUE, off, "", "")
UnmarshalTypeError(value, type, off) ==
  Err("UnmarshalTypeError", TRUE, off, value, type)

\* decodeState.saveError: the first error is the one kept
SaveError(saved, e) == IF saved.kind # "nil" THEN saved ELSE e

----------------------------------------------------------------------------
(* The scanner of Decoder.readValue: a pushdown automaton over the        *)
(* lexemes.  stack holds the open brackets, st what may come next.  The    *)
(* value ends with the lexeme that closes it; nothing after it is looked   *)
(* at.                                                                     *)

ScanInit == [stack |-> <<>>, st |-> "value"]

Cont(stack, st) == [stack |-> stack, st |-> st, res |-> "continue"]
ScanError(s) == [stack |-> s.stack, st |-> s.st, res |-> "error"]

ValueDoneStrict(stack) ==
  IF stack = <<>> THEN Cont(stack, "endTop") ELSE Cont(stack, "afterValue")

\* a value is complete: at the top level the scan ends, else a ',' or the
\* closing bracket must follow
ValueDone(stack) ==
  IF stack = <<>> THEN [stack |-> stack, st |-> "endTop", res |-> "end"]
  ELSE Cont(stack, "afterValue")

Pop(stack) == SubSeq(stack, 1, Len(stack) - 1)
Top(stack) == stack[Len(stack)]

ScanStep(s, tok) ==
  IF s.st = "lexeme" THEN ScanError(s)
  ELSE IF tok.t = "ws" THEN Cont(s.stack, s.st)
  ELSE IF s.st \in {"value", "valueOrEnd"} THEN
    IF tok.t \in ScalarToks THEN ValueDone(s.stack)
    ELSE IF tok.t = "{" THEN Cont(Append(s.stack, "{"), "keyOrEnd")
    ELSE IF tok.t = "[" THEN Cont(Append(s.stack, "["), "valueOrEnd")
    ELSE IF tok.t = "]" /\ s.st = "valueOrEnd" THEN ValueDone(Pop(s.stack))
    ELSE IF tok.t = "partial" THEN Cont(s.stack, "lexeme")
    ELSE ScanError(s)
  ELSE IF s.st \in {"keyOrEnd", "key"} THEN
    IF tok.t = "string" THEN Cont(s.stack, "colon")
    ELSE IF tok.t = "}" /\ s.st = "keyOrEnd" THEN ValueDone(Pop(s.stack))
    ELSE IF tok.t = "partial" /\ tok.s = "string" THEN Cont(s.stack, "lexeme")
    ELSE ScanError(s)
  ELSE IF s.st = "colon" THEN
    IF tok.t = ":" THEN Cont(s.stack, "value") ELSE ScanError(s)
  ELSE IF s.st = "afterValue" THEN
    IF tok.t = "," THEN
      Cont(s.stack, IF Top(s.stack) = "{" THEN "key" ELSE "value")
    ELSE IF tok.t = "}" /\ Top(s.stack) = "{" THEN ValueDone(Pop(s.stack))
    ELSE IF tok.t = "]" /\ Top(s.stack) = "[" THEN ValueDone(Pop(s.stack))
    ELSE ScanError(s)
  ELSE ScanError(s)

\* readValue's loop over buf[lo..hi]: the scanner state after it, res
\* ("continue": more input is needed) and the number n of tokens scanned
RECURSIVE ScanRange(_, _, _, _)
ScanRange(s, buf, lo, hi) ==
  IF lo > hi THEN [stack |-> s.stack, st |-> s.st, res |-> "continue", n |-> hi]
  ELSE IF lo = hi THEN
    LET r == ScanStep(s, buf[lo])
    IN [stack |-> r.stack, st |-> r.st, res |-> r.res, n |-> lo]
  ELSE LET mid == (lo + hi) \div 2
           r == ScanRange(s, buf, lo, mid)
       IN IF r.res # "continue" THEN r
          ELSE ScanRange([stack |-> r.stack, st |-> r.st], buf, mid + 1, hi)

ScanFrom(s, buf, i) == ScanRange(s, buf, i, Len(buf))

\* nonSpace(dec.buf)
NonSpace(buf) == \E i \in 1..Len(buf) : buf[i].t # "ws"

----------------------------------------------------------------------------
(* The decoding of a scanned value into a Go value (decodeState.value,     *)
(* array, object, literalStore).  The tokens are well-formed here.  Every  *)
(* operator returns [off, val, err]: the index after the value, the        *)
(* target's new contents and the first error saved.  A mismatch is saved   *)
(* and decoding goes on with the next element or member.                   *)

RECURSIVE SkipWs(_, _)
SkipWs(toks, i) ==
  IF i <= Len(toks) /\ toks[i].t = "ws" THEN SkipWs(toks, i + 1) ELSE i

\* decodeState.skip: the index after the value that begins at i
RECURSIVE SkipNested(_, _, _)
SkipNested(toks, i, depth) ==
  LET d == IF toks[i].t \in {"{", "["} THEN depth + 1
           ELSE IF toks[i].t \in {"}", "]"} THEN depth - 1
           ELSE depth
  IN IF d = 0 THEN i + 1 ELSE SkipNested(toks, i + 1, d)

SkipValue(toks, i) == SkipNested(toks, i, 0)

\* ASCII case folding, on the keys the inputs use
Fold(k) ==
  CASE k = "OpenAPI" -> "openapi"
    [] k = "Title" -> "title"
    [] k = "operationId" -> "operationid"
    [] k = "OPERATIONID" -> "operationid"
    [] OTHER -> k

\* the field a key of a JSON object names: the field whose tag is the key,
\* else the first one whose tag equals it but for case; 0 when none
FieldForKey(t, key) ==
  LET F == Fields(t)
      exact == {i \in 1..Len(F) : F[i].key = key}
      fold == {i \in 1..Len(F) : Fold(F[i].key) = Fold(key)}
  IN IF exact # {} THEN CHOOSE i \in exact : TRUE
     ELSE IF fold # {} THEN CHOOSE i \in fold : \A j \in fold : i <= j
     ELSE 0

Res(off, val, err) == [off |-> off, val |-> val, err |-> err]

\* literalStore; off is the number of tokens read through the literal
LiteralStore(tok, t, cur, off) ==
  CASE tok.t = "null" ->
         Res(off + 1, IF Kind(t) \in {"slice", "map"} THEN Zero(t) ELSE cur, NoErr)
    [] tok.t \in {"true", "false"} ->
         IF Kind(t) = "bool" THEN Res(off + 1, tok.t = "true", NoErr)
         ELSE Res(off + 1, cur, UnmarshalTypeError("bool", t, off))
    [] tok.t = "string" ->
         IF Kind(t) = "string" THEN Res(off + 1, tok.s, NoErr)
         ELSE Res(off + 1, cur, UnmarshalTypeError("string", t, off))
    [] tok.t = "number" ->
         Res(off + 1, cur, UnmarshalTypeError("number", t, off))

RECURSIVE Value(_, _, _, _)
RECURSIVE ArrayLoop(_, _, _, _, _, _)
RECURSIVE StructLoop(_, _, _, _, _)
RECURSIVE MapLoop(_, _, _, _, _)

\* decodeState.array, from the first element on: elems are the elements
\* decoded so far, cur the slice's former contents
ArrayLoop(toks, i, t, cur, elems, err) ==
  LET j == SkipWs(toks, i)
  IN IF toks[j].t = "]" THEN Res(j + 1, [isNil |-> FALSE, elems |-> elems], err)
     ELSE IF toks[j].t = "," THEN ArrayLoop(toks, j + 1, t, cur, elems, err)
     ELSE LET n == Len(elems) + 1
              into == IF n <= Len(cur.elems) THEN cur.elems[n] ELSE Zero(Elem(t))
              r == Value(toks, j, Elem(t), into)
          IN ArrayLoop(toks, r.off, t, cur, Append(elems, r.val), SaveError(err, r.err))

\* decodeState.object into a struct: a key that names no field is skipped
StructLoop(toks, i, t, cur, err) ==
  LET j == SkipWs(toks, i)
  IN IF toks[j].t = "}" THEN Res(j + 1, cur, err)
     ELSE IF toks[j].t = "," THEN StructLoop(toks, j + 1, t, cur, err)
     ELSE LET v == SkipWs(toks, SkipWs(toks, j + 1) + 1)
              f == FieldForKey(t, toks[j].s)
          IN IF f = 0 THEN StructLoop(toks, SkipValue(toks, v), t, cur, err)
             ELSE LET fd == Fields(t)[f]
                      r == Value(toks, v, fd.type, cur[fd.name])
                  IN StructLoop(toks, r.off, t, [cur EXCEPT ![fd.name] = r.val],
                                SaveError(err, r.err))

\* decodeState.object into a map: every key becomes an entry, decoded into
\* a fresh zero element
MapLoop(toks, i, t, entries, err) ==
  LET j == SkipWs(toks, i)
  IN IF toks[j].t = "}" THEN Res(j + 1, [isNil |-> FALSE, entries |-> entries], err)
     ELSE IF toks[j].t = "," THEN MapLoop(toks, j + 1, t, entries, err)
     ELSE LET v == SkipWs(toks, SkipWs(toks, j + 1) + 1)
              r == Value(toks, v, Elem(t), Zero(Elem(t)))
              kept == {e \in entries : e.key # toks[j].s}
          IN MapLoop(toks, r.off, t, kept \cup {[key |-> toks[j].s, val |-> r.val]},
                     SaveError(err, r.err))

\* decodeState.value: the value that begins at toks[i], into cur of type t
Value(toks, i, t, cur) ==
  CASE toks[i].t = "[" ->
         IF Kind(t) = "slice" THEN ArrayLoop(toks, i + 1, t, cur, <<>>, NoErr)
         ELSE Res(SkipValue(toks, i), cur, UnmarshalTypeError("array", t, i))
    [] toks[i].t = "{" ->
         IF Kind(t) = "struct" THEN StructLoop(toks, i + 1, t, cur, NoErr)
         ELSE IF Kind(t) = "map" THEN
           MapLoop(toks, i + 1, t, IF cur.isNil THEN {} ELSE cur.entries, NoErr)
         ELSE Res(SkipValue(toks, i), cur, UnmarshalTypeError("object", t, i))
    [] OTHER -> LiteralStore(toks[i], t, cur, i)

\* decodeState.unmarshal of the scanned value into api
Unmarshal(toks, api) ==
  LET r == Value(toks, SkipWs(toks, 1), "API", api)
  IN [api |-> r.val, err |-> r.err]

----------------------------------------------------------------------------
(* The documents the calls are given.  A document is written as a tree:    *)
(* a node is [k, s, kids], k its JSON kind, s the text of a scalar, kids   *)
(* the members [key, val] of an object or (with key "") the elements of    *)
(* an array.  Serialize gives its text, lexeme by lexeme.                  *)

Node(k, s, kids) == [k |-> k, s |-> s, kids |-> kids]
M(key, val) == [key |-> key, val |-> val]

JS(s) == Node("string", s, <<>>)
JN == Node("number", "1", <<>>)
JT == Node("true", "", <<>>)
JF == Node("false", "", <<>>)
JNull == Node("null", "", <<>>)
JO(members) == Node("object", "", members)
JA(elems) == Node("array", "", [i \in 1..Len(elems) |-> M("", elems[i])])
JStrs(strs) == JA([i \in 1..Len(strs) |-> JS(strs[i])])

RECURSIVE Serialize(_)
RECURSIVE SerializeKids(_, _, _)
SerializeKids(node, i, acc) ==
  IF i > Len(node.kids) THEN acc
  ELSE LET m == node.kids[i]
           sep == IF i > 1 THEN <<COMMA>> ELSE <<>>
           key == IF node.k = "object" THEN <<TStr(m.key), COLON>> ELSE <<>>
       IN SerializeKids(node, i + 1, acc \o sep \o key \o Serialize(m.val))

Serialize(node) ==
  CASE node.k = "object" -> <<LB>> \o SerializeKids(node, 1, <<>>) \o <<RB>>
    [] node.k = "array" -> <<LK>> \o SerializeKids(node, 1, <<>>) \o <<RK>>
    [] OTHER -> <<Tok(node.k, node.s)>>

\* the paths (sequences of child indices) of the nodes of a tree
RECURSIVE Paths(_)
Paths(node) ==
  {<<>>} \cup UNION {{<<i>> \o p : p \in Paths(node.kids[i].val)} : i \in 1..Len(node.kids)}

RECURSIVE NodeAt(_, _)
NodeAt(node, p) ==
  IF p = <<>> THEN node ELSE NodeAt(node.kids[Head(p)].val, Tail(p))

RECURSIVE ReplaceAt(_, _, _)
ReplaceAt(node, p, new) ==
  IF p = <<>> THEN new
  ELSE [node EXCEPT !.kids[Head(p)].val = ReplaceAt(@, Tail(p), new)]

\* the tree without the member or element that p (not empty) leads to
RECURSIVE RemoveAt(_, _)
RemoveAt(node, p) ==
  IF Len(p) = 1
  THEN [node EXCEPT !.kids = SubSeq(@, 1, p[1] - 1) \o SubSeq(@, p[1] + 1, Len(@))]
  ELSE [node EXCEPT !.kids[Head(p)].val = RemoveAt(@, Tail(p))]

\* the tree with member m added in front of the object at p
InsertAt(node, p, m) ==
  ReplaceAt(node, p, [NodeAt(node, p) EXCEPT !.kids = <<m>> \o @])

\* the tree cut down to the members and elements on the way to p
RECURSIVE Only(_, _)
Only(node, p) ==
  IF p = <<>> THEN node
  ELSE [node EXCEPT !.kids = <<M(node.kids[Head(p)].key,
                                  Only(node.kids[Head(p)].val, Tail(p)))>>]

\* the Go type the node at p is decoded into, the root being decoded into t
\* ("none" below a key that names no field)
RECURSIVE TypeAt(_, _, _)
TypeAt(t, node, p) ==
  IF p = <<>> THEN t
  ELSE LET m == node.kids[Head(p)]
           sub == IF node.k = "object" /\ Kind(t) = "struct"
                  THEN IF FieldForKey(t, m.key) = 0 THEN "none"
                       ELSE Fields(t)[FieldForKey(t, m.key)].type
                  ELSE IF (node.k = "object" /\ Kind(t) = "map")
                          \/ (node.k = "array" /\ Kind(t) = "slice")
                  THEN Elem(t)
                  ELSE "none"
       IN IF sub = "none" THEN "none" ELSE TypeAt(sub, m.val, Tail(p))

\* the JSON kind a Go type is decoded from
JSONKind(t) ==
  CASE Kind(t) \in {"struct", "map"} -> "object"
    [] Kind(t) = "slice" -> "array"
    [] OTHER -> Kind(t)

\* the document of the spec's concrete scenario
SampleDoc ==
  JO(<< M("openapi", JS("3.0.0")),
        M("info", JO(<< M("title", JS("T")), M("version", JS("1")) >>)),
        M("servers", JA(<< JO(<< M("url", JS("https://a")) >>) >>)),
        M("paths", JO(<< M("/x", JO(<< M("get", JO(<<
            M("summary", JS("s")),
            M("operationId", JS("op1")),
            M("parameters", JA(<<>>)),
            M("responses", JO(<< M("200", JO(<< M("description", JS("ok")) >>)) >>))
          >>)) >>)) >>)),
        M("components", JO(<<>>)) >>)

ItemDoc == JO(<< M("enum", JStrs(<<"i1", "i2">>)), M("type", JS("integer")),
                 M("$ref", JS("#/i")) >>)

SchemaDoc == JO(<< M("enum", JStrs(<<"e1", "e2">>)), M("items", ItemDoc),
                   M("type", JS("array")), M("$ref", JS("#/s")),
                   M("default", JS("d")) >>)

ContentDoc == JO(<< M("application/json", JO(<< M("schema", SchemaDoc) >>)) >>)

\* a document that carries every field of every entity
FullDoc ==
  JO(<< M("openapi", JS("3.0.1")),
        M("info", JO(<< M("title", JS("Full")), M("version", JS("2")) >>)),
        M("servers", JA(<< JO(<< M("url", JS("https://b")) >>),
                            JO(<< M("url", JS("https://a")) >>) >>)),
        M("paths", JO(<< M("/y", JO(<< M("post", JO(<<
            M("tags", JStrs(<<"t2", "t1">>)),
            M("summary", JS("sum")),
            M("description", JS("desc")),
            M("operationId", JS("op2")),
            M("parameters", JA(<<
               JO(<< M("name", JS("q")), M("in", JS("query")),
                     M("description", JS("pd")), M("required", JT),
                     M("schema", SchemaDoc) >>),
               JO(<< M("name", JS("h")), M("in", JS("header")) >>) >>)),
            M("responses", JO(<<
               M("200", JO(<< M("description", JS("ok")), M("content", ContentDoc) >>)),
               M("404", JO(<< M("description", JS("nf")) >>)) >>)),
            M("requestBody", JO(<< M("description", JS("body")),
                                   M("content", ContentDoc),
                                   M("required", JT) >>))
          >>)) >>)) >>)),
        M("components", JO(<< M("schemas", JO(<< M("Pet", JO(<<
            M("required", JStrs(<<"name", "id">>)),
            M("type", JS("object")),
            M("properties", JO(<< M("name", JO(<<
               M("type", JS("string")), M("$ref", JS("#/p")),
               M("items", SchemaDoc), M("format", JS("uuid")),
               M("nullable", JT), M("enum", JStrs(<<"x", "y">>)) >>)) >>))
          >>)) >>)) >>)) >>)

\* keys that differ from the tags in case only, and a method with a request
\* body that is present and empty
CaseDoc ==
  JO(<< M("OpenAPI", JS("3.1.0")),
        M("info", JO(<< M("Title", JS("C")) >>)),
        M("paths", JO(<< M("/z", JO(<< M("put", JO(<<
            M("OPERATIONID", JS("op3")),
            M("requestBody", JO(<<>>)) >>)) >>)) >>)) >>)

EmptyDoc == JO(<<>>)

BaseNames == {"sample", "full", "case", "empty"}

Base(name) ==
  CASE name = "sample" -> SampleDoc
    [] name = "full" -> FullDoc
    [] name = "case" -> CaseDoc
    [] name = "empty" -> EmptyDoc

----------------------------------------------------------------------------
(* The variations of a base document.  origin[c] records which one call c  *)
(* is given: [base, var, path, n, arg].                                    *)

MaxTrailing == 2
ChunkSize == 16

O(base, var, path, n, arg) ==
  [base |-> base, var |-> var, path |-> path, n |-> n, arg |-> arg]

BaseToks(o) == Serialize(Base(o.base))

\* white space before every lexeme and after the last
Spaced(toks) ==
  [i \in 1..(2 * Len(toks) + 1) |-> IF i % 2 = 1 THEN WS ELSE toks[i \div 2]]

\* what is left of a lexeme cut off before its end
PartialOf(tok) ==
  IF tok.t = "string" THEN Tok("partial", "string") ELSE Tok("partial", "literal")

Replacement(kind) ==
  CASE kind = "object" -> JO(<< M("k", JS("v")) >>)
    [] kind = "array" -> JA(<<>>)
    [] kind = "string" -> JS("not-an-array")
    [] kind = "number" -> JN
    [] kind = "bool" -> JT

JSONKinds == {"object", "array", "string", "number", "bool"}

TrailingToks == {BAD, RB, LB, WS, TStr("x")}

RECURSIVE SeqsUpTo(_, _)
SeqsUpTo(S, n) ==
  IF n = 0 THEN {<<>>}
  ELSE LET shorter == SeqsUpTo(S, n - 1)
       IN shorter \cup {Append(q, x) : q \in shorter, x \in S}

Trailings == SeqsUpTo(TrailingToks, MaxTrailing) \ {<<>>}

\* the tree of a variation made on the tree of the base document
DocOf(o) ==
  LET doc == Base(o.base)
  IN CASE o.var = "addkey" -> InsertAt(doc, o.path, M("x-internal-note", JS("foo")))
       [] o.var = "addbody" -> InsertAt(doc, o.path, M("requestBody", JO(<<>>)))
       [] o.var = "mismatch" -> ReplaceAt(doc, o.path, Replacement(o.arg))
       [] o.var = "remove" -> RemoveAt(doc, o.path)
       [] o.var = "only" -> Only(doc, o.path)
       [] OTHER -> doc

Build(o) ==
  LET toks == BaseToks(o)
  IN CASE o.var = "ws" -> Spaced(toks)
       [] o.var = "truncate" ->
            SubSeq(toks, 1, o.n)
              \o (IF o.arg = "mid" THEN <<PartialOf(toks[o.n + 1])>> ELSE <<>>)
       [] o.var = "trailing" ->
            toks \o (IF o.arg = "second document" THEN toks ELSE o.path)
       [] o.var = "badtoken" ->
            SubSeq(toks, 1, o.n - 1)
              \o (CASE o.arg = "bad" -> <<BAD>>
                    [] o.arg = "drop" -> <<>>
                    [] o.arg = "dup" -> <<toks[o.n], toks[o.n]>>)
              \o SubSeq(toks, o.n + 1, Len(toks))
       [] OTHER -> Serialize(DocOf(o))

ObjectPaths(doc) == {p \in Paths(doc) : NodeAt(doc, p).k = "object"}

MethodPaths(doc) ==
  {p \in ObjectPaths(doc) :
     /\ TypeAt("API", doc, p) = "Method"
     /\ \A i \in 1..Len(NodeAt(doc, p).kids) : NodeAt(doc, p).kids[i].key # "requestBody"}

\* the variations made on the tree of base document b
TreeOrigins(b) ==
  LET doc == Base(b)
  IN {O(b, "none", <<>>, 0, ""), O(b, "ws", <<>>, 0, "")}
     \cup {O(b, "addkey", p, 0, "") : p \in ObjectPaths(doc)}
     \cup {O(b, "addbody", p, 0, "") : p \in MethodPaths(doc)}
     \cup {o \in {O(b, "mismatch", p, 0, k) : p \in Paths(doc), k \in JSONKinds} :
             o.arg # JSONKind(TypeAt("API", doc, o.path))}
     \cup {O(b, "remove", p, 0, "") : p \in Paths(doc) \ {<<>>}}
     \cup {O(b, "only", p, 0, "") : p \in Paths(doc)}

\* the variations made on the text of base document b
TokenOrigins(b) ==
  LET toks == Serialize(Base(b))
      len == Len(toks)
  IN {O(b, "truncate", <<>>, n, "clean") : n \in 0..(len - 1)}
     \cup {O(b, "truncate", <<>>, n, "mid") :
             n \in {m \in 0..(len - 1) : toks[m + 1].t \in ScalarToks \ {"number"}}}
     \cup {O(b, "trailing", g, 0, "garbage") : g \in Trailings}
     \cup {O(b, "trailing", <<>>, 0, "second document")}
     \cup {O(b, "badtoken", <<>>, n, a) : n \in 1..len, a \in {"bad", "drop", "dup"}}

TokenBases == {"sample", "case", "empty"}

Origins ==
  UNION {TreeOrigins(b) : b \in BaseNames} \cup UNION {TokenOrigins(b) : b \in TokenBases}

Unused == O("empty", "unused", <<>>, 0, "")

\* the inputs of the calls that run concurrently
ConcOrigins ==
  { O("sample", "none", <<>>, 0, ""),
    O("case", "none", <<>>, 0, ""),
    O("empty", "ws", <<>>, 0, ""),
    O("sample", "truncate", <<>>, 40, "clean"),
    O("sample", "mismatch", <<3>>, 0, "string"),
    O("case", "trailing", <<>>, 0, "second document") }

----------------------------------------------------------------------------
(* Parse (openapi.go lines 145-154).  A call is at "start", then at "read" *)
(* until Decode has returned, then "done".                                 *)

Calls == {1, 2}

ChunkSizes == {ChunkSize, 2 * ChunkSize}

Min(a, b) == IF a < b THEN a ELSE b

\* line 148: var api API
NewAPIDefaulted == [Zero("API") EXCEPT !.Version = "3.0.0"]

NewAPI == Zero("API")

\* line 150: dec := json.NewDecoder(br), a decoder of the call's own
DecoderOfShared(c) == 1

DecoderOf(c) == c

NewDecoder == [buf |-> <<>>, scanp |-> 0, scan |-> ScanInit]

\* the value readValue hands to unmarshal: the tokens through the one that
\* ends the first value
ScannedValue(buf, n) == SubSeq(buf, 1, n)

\* the error of readValue for a scan that stops at an offending token
ReadSyntaxError(n) == SyntaxError(n)

\* the error of readValue when the reader is at EOF before the value ended
ReadEOFError(buf) == IF NonSpace(buf) THEN ErrUnexpectedEOF ELSE ErrEOF

\* One read of Decode's readValue loop on decoder d with api the call's
\* variable: chunk is what the reader delivers (empty at EOF).  The result
\* is the decoder after it and, when Decode returns, what Parse returns.
ReadStep(d, api, chunk) ==
  IF chunk = <<>>
  THEN [dec |-> d, done |-> TRUE, ret |-> [api |-> api, err |-> ReadEOFError(d.buf)]]
  ELSE LET buf == d.buf \o chunk
           r == ScanFrom(d.scan, buf, d.scanp + 1)
           d2 == [buf |-> buf, scanp |-> r.n, scan |-> [stack |-> r.stack, st |-> r.st]]
       IN CASE r.res = "continue" ->
                 [dec |-> d2, done |-> FALSE, ret |-> [api |-> api, err |-> NoErr]]
            [] r.res = "error" ->
                 [dec |-> d2, done |-> TRUE,
                  ret |-> [api |-> api, err |-> ReadSyntaxError(r.n)]]
            [] r.res = "end" ->
                 [dec |-> d2, done |-> TRUE,
                  ret |-> Unmarshal(ScannedValue(buf, r.n), api)]

\* lines 146-150
Start(c) ==
  /\ pc[c] = "start"
  /\ pc' = [pc EXCEPT ![c] = "read"]
  /\ dec' = [dec EXCEPT ![DecoderOf(c)] = NewDecoder]
  /\ ret' = [ret EXCEPT ![c] = [api |-> NewAPI, err |-> NoErr]]
  /\ UNCHANGED <<input, origin, rd>>

\* lines 151-153: one read of dec.Decode(&api); Parse returns when it has
\* the first value, an error of the scanner, or EOF
Read(c) ==
  /\ pc[c] = "read"
  /\ \E n \in ChunkSizes :
       LET to == Min(rd[c] + n, Len(input[c]))
           r == ReadStep(dec[DecoderOf(c)], ret[c].api, SubSeq(input[c], rd[c] + 1, to))
       IN /\ rd' = [rd EXCEPT ![c] = to]
          /\ dec' = [dec EXCEPT ![DecoderOf(c)] = r.dec]
          /\ ret' = [ret EXCEPT ![c] = r.ret]
          /\ pc' = [pc EXCEPT ![c] = IF r.done THEN "done" ELSE "read"]
  /\ UNCHANGED <<input, origin>>

\* Parse run alone on a stream that delivers toks in pieces of ChunkSize
RECURSIVE ParseLoop(_, _, _, _)
ParseLoop(toks, at, d, api) ==
  LET to == Min(at + ChunkSize, Len(toks))
      r == ReadStep(d, api, SubSeq(toks, at + 1, to))
  IN IF r.done THEN r.ret ELSE ParseLoop(toks, to, r.dec, r.ret.api)

ParseAlone(toks) == ParseLoop(toks, 0, NewDecoder, NewAPI)

Idle == [api |-> Zero("API"), err |-> NoErr]

\* one call, on any variation of any base document
Init ==
  /\ \E o \in Origins :
       /\ origin = [c \in Calls |-> IF c = 1 THEN o ELSE Unused]
       /\ input = [c \in Calls |-> IF c = 1 THEN Build(o) ELSE <<>>]
  /\ pc = [c \in Calls |-> IF c = 1 THEN "start" ELSE "unused"]
  /\ rd = [c \in Calls |-> 0]
  /\ dec = [c \in Calls |-> NewDecoder]
  /\ ret = [c \in Calls |-> Idle]

\* two concurrent calls on independent streams
InitConc ==
  /\ origin \in [Calls -> ConcOrigins]
  /\ input = [c \in Calls |-> Build(origin[c])]
  /\ pc = [c \in Calls |-> "start"]
  /\ rd = [c \in Calls |-> 0]
  /\ dec = [c \in Calls |-> NewDecoder]
  /\ ret = [c \in Calls |-> Idle]

Next == \E c \in Calls : Start(c) \/ Read(c)

Spec == Init /\ [][Next]_vars

SpecConc == InitConc /\ [][Next]_vars

----------------------------------------------------------------------------
(* What the claims are stated with.                                        *)

Done(c) == pc[c] = "done"

\* the whole input is one JSON value, white space around it allowed
WellFormed(toks) ==
  LET r == ScanFrom(ScanInit, toks, 1)
  IN /\ r.res = "end"
     /\ \A i \in (r.n + 1)..Len(toks) : toks[i].t = "ws"

\* the variations that are documents with every value of its field's kind
ValidVars == {"none", "ws", "remove", "only", "addbody"}

GoSlice(elems) == [isNil |-> FALSE, elems |-> elems]
GoMap(entries) == [isNil |-> FALSE, entries |-> entries]
Entry(key, val) == [key |-> key, val |-> val]
MapKeys(m) == {e.key : e \in m.entries}
MapGet(m, key) == (CHOOSE e \in m.entries : e.key = key).val

\* the Go value val of type t holds what the tree node supplies: strings
\* and booleans exactly, lists element by element in order, mappings key
\* by key
RECURSIVE Carries(_, _, _)
Carries(val, t, node) ==
  CASE node.k = "object" /\ Kind(t) = "struct" ->
         \A i \in 1..Len(node.kids) :
           LET f == FieldForKey(t, node.kids[i].key)
           IN f # 0 => Carries(val[Fields(t)[f].name], Fields(t)[f].type, node.kids[i].val)
    [] node.k = "object" /\ Kind(t) = "map" ->
         /\ ~val.isNil
         /\ MapKeys(val) = {node.kids[i].key : i \in 1..Len(node.kids)}
         /\ \A i \in 1..Len(node.kids) :
              Carries(MapGet(val, node.kids[i].key), Elem(t), node.kids[i].val)
    [] node.k = "array" /\ Kind(t) = "slice" ->
         /\ ~val.isNil
         /\ Len(val.elems) = Len(node.kids)
         /\ \A i \in 1..Len(node.kids) : Carries(val.elems[i], Elem(t), node.kids[i].val)
    [] node.k = "string" /\ Kind(t) = "string" -> val = node.s
    [] node.k \in {"true", "false"} /\ Kind(t) = "bool" -> val = (node.k = "true")
    [] OTHER -> FALSE

\* in val of type t every field whose key the tree omits is empty
RECURSIVE AbsentZero(_, _, _)
AbsentZero(val, t, node) ==
  CASE node.k = "object" /\ Kind(t) = "struct" ->
         LET F == Fields(t)
             at(f) == {i \in 1..Len(node.kids) : FieldForKey(t, node.kids[i].key) = f}
         IN \A f \in 1..Len(F) :
              IF at(f) = {} THEN val[F[f].name] = Zero(F[f].type)
              ELSE \A i \in at(f) : AbsentZero(val[F[f].name], F[f].type, node.kids[i].val)
    [] node.k = "object" /\ Kind(t) = "map" ->
         \A i \in 1..Len(node.kids) :
           AbsentZero(MapGet(val, node.kids[i].key), Elem(t), node.kids[i].val)
    [] node.k = "array" /\ Kind(t) = "slice" ->
         \A i \in 1..Len(node.kids) : AbsentZero(val.elems[i], Elem(t), node.kids[i].val)
    [] OTHER -> TRUE

ItemVal == [Enums |-> GoSlice(<<"i1", "i2">>), Type |-> "integer", Ref |-> "#/i"]

SchemaVal ==
  [Enums |-> GoSlice(<<"e1", "e2">>), Items |-> ItemVal, Type |-> "array",
   Ref |-> "#/s", Default |-> "d"]

EmptySchema ==
  [Enums |-> NilSlice, Items |-> [Enums |-> NilSlice, Type |-> "", Ref |-> ""],
   Type |-> "", Ref |-> "", Default |-> ""]

ContentVal ==
  GoMap({Entry("application/json", GoMap({Entry("schema", SchemaVal)}))})

\* the API that FullDoc spells out, field by field
FullAPI ==
  [Version |-> "3.0.1",
   Info |-> [Title |-> "Full", Version |-> "2"],
   Servers |-> GoSlice(<<[URL |-> "https://b"], [URL |-> "https://a"]>>),
   Paths |-> GoMap({Entry("/y", GoMap({Entry("post",
     [Tags |-> GoSlice(<<"t2", "t1">>),
      Summary |-> "sum",
      Description |-> "desc",
      OperationID |-> "op2",
      Parameters |-> GoSlice(<<
        [Name |-> "q", In |-> "query", Description |-> "pd", Required |-> TRUE,
         Schema |-> SchemaVal],
        [Name |-> "h", In |-> "header", Description |-> "", Required |-> FALSE,
         Schema |-> EmptySchema] >>),
      Responses |-> GoMap({
        Entry("200", [Description |-> "ok", Content |-> ContentVal]),
        Entry("404", [Description |-> "nf", Content |-> NilMap]) }),
      RequestBody |-> [Description |-> "body", Content |-> ContentVal,
                       Required |-> TRUE]])}))}),
   Components |-> GoMap({Entry("schemas", GoMap({Entry("Pet",
     [Required |-> GoSlice(<<"name", "id">>),
      Is |-> "object",
      Properties |-> GoMap({Entry("name",
        [Type |-> "string", Ref |-> "#/p", Items |-> SchemaVal, Format |-> "uuid",
         Nullable |-> TRUE, Enums |-> GoSlice(<<"x", "y">>)])})])}))})]

\* what the spec says the sample document parses to
SampleFacts(api) ==
  /\ api.Version = "3.0.0"
  /\ api.Info.Title = "T"
  /\ api.Servers.elems = <<[URL |-> "https://a"]>>
  /\ MapKeys(api.Paths) = {"/x"}
  /\ MapKeys(MapGet(api.Paths, "/x")) = {"get"}
  /\ MapGet(MapGet(api.Paths, "/x"), "get").OperationID = "op1"
  /\ MapKeys(MapGet(MapGet(api.Paths, "/x"), "get").Responses) = {"200"}
  /\ MapGet(MapGet(MapGet(api.Paths, "/x"), "get").Responses, "200").Description = "ok"

----------------------------------------------------------------------------
\* C5: a document that carries a field with a value of its declared type
\* parses without error to an API whose field equals the supplied value:
\* strings and booleans exactly, mappings pair by pair, lists element by
\* element in the order of the input.  FullDoc, which carries every field
\* of every entity, parses to FullAPI, and the spec's sample document to
\* the values the spec lists.
C5_FieldsRoundTrip ==
  \A c \in Calls :
    (Done(c) /\ origin[c].var \in ValidVars) =>
      /\ ret[c].err = NoErr
      /\ Carries(ret[c].api, "API", DocOf(origin[c]))
      /\ (origin[c].base = "full" /\ origin[c].var \in {"none", "ws"})
           => ret[c].api = FullAPI
      /\ (origin[c].base = "sample" /\ origin[c].var \in {"none", "ws"})
           => SampleFacts(ret[c].api)

\* C5 witness: the call on FullDoc has returned, the servers in input order
C5_Witness ==
  /\ Done(1)
  /\ origin[1] = O("full", "none", <<>>, 0, "")
  /\ ret[1].err = NoErr
  /\ ret[1].api.Servers.elems[1].URL = "https://b"
  /\ ret[1].api.Servers.elems[2].URL = "https://a"

\* C6: a document that omits keys (one member, all members off the way to
\* one node, or all of them: {}) parses without error, and every omitted
\* field holds the empty value of its type.
C6_AbsentFieldsZero ==
  \A c \in Calls :
    (Done(c) /\ origin[c].var \in {"none", "ws", "remove", "only"}) =>
      /\ ret[c].err = NoErr
      /\ AbsentZero(ret[c].api, "API", DocOf(origin[c]))
      /\ origin[c].base = "empty" => ret[c].api = Zero("API")

\* C6 witness: FullDoc without its "openapi" member has been parsed
C6_Witness ==
  /\ Done(1)
  /\ origin[1] = O("full", "remove", <<1>>, 0, "")
  /\ ret[1].err = NoErr
  /\ ret[1].api.Version = ""
  /\ ret[1].api.Info.Title = "Full"

\* the index in Serialize(node) of the first token of the node at path p
RECURSIVE TokIndex(_, _)
RECURSIVE TokensBefore(_, _)
TokensBefore(node, h) ==
  IF h = 1 THEN 0
  ELSE TokensBefore(node, h - 1)
       + (IF node.k = "object" THEN 2 ELSE 0)
       + Len(Serialize(node.kids[h - 1].val)) + 1

TokIndex(node, p) ==
  IF p = <<>> THEN 1
  ELSE 1 + TokensBefore(node, Head(p)) + (IF node.k = "object" THEN 2 ELSE 0)
       + TokIndex(node.kids[Head(p)].val, Tail(p))

SampleMethod(api) == MapGet(MapGet(api.Paths, "/x"), "get")

----------------------------------------------------------------------------
\* C1: whenever Parse returns an error, the API returned with it holds
\* nothing taken from the input.
C1_NoPartialTree ==
  \A c \in Calls :
    (Done(c) /\ ret[c].err # NoErr) => ret[c].api = Zero("API")

\* C2: a document with the key "x-internal-note": "foo" added to any of
\* its objects parses without error to the API of the document without it.
C2_UnknownKeyAnywhere ==
  \A c \in Calls :
    (Done(c) /\ origin[c].var = "addkey") =>
      /\ ret[c].err = NoErr
      /\ ret[c].api = ParseAlone(BaseToks(origin[c])).api

\* C3: Parse returns an error for every truncated document, for every
\* input that is not well-formed JSON and for every document with a value
\* of another kind than its field's.
C3_MalformedRejected ==
  \A c \in Calls :
    (Done(c) /\ (origin[c].var \in {"truncate", "mismatch"} \/ ~WellFormed(input[c])))
      => ret[c].err # NoErr

\* C4: the RequestBody of a Method parsed without a "requestBody" key
\* differs from that of the Method parsed with "requestBody": {}.
C4_AbsentBodyDiffers ==
  \A c \in Calls :
    (Done(c) /\ origin[c].var = "addbody" /\ origin[c].base = "sample") =>
      SampleMethod(ret[c].api).RequestBody
        # SampleMethod(ParseAlone(BaseToks(origin[c])).api).RequestBody

\* C7 as stated: every error Parse returns carries an offset or a path.
C7_EveryErrorLocates ==
  \A c \in Calls :
    (Done(c) /\ ret[c].err # NoErr) => ret[c].err.hasOffset

\* C7 as amended: the error for a syntax error carries the offset of the
\* offending token and the error for a mismatch the offset of the
\* offending value with the JSON kind and the Go type that disagree; the
\* error for a truncated document is io.ErrUnexpectedEOF (io.EOF when
\* nothing was read), which carries no position.
C7_ErrorPosition ==
  \A c \in Calls :
    Done(c) =>
      /\ ret[c].err.kind \in {"SyntaxError", "UnmarshalTypeError"}
           => ret[c].err.hasOffset /\ ret[c].err.offset \in 1..Len(input[c])
      /\ ret[c].err.kind \in {"EOF", "ErrUnexpectedEOF"} => ~ret[c].err.hasOffset
      /\ (origin[c].var = "badtoken" /\ origin[c].arg = "bad")
           => ret[c].err = SyntaxError(origin[c].n)
      /\ origin[c].var = "mismatch"
           => ret[c].err = UnmarshalTypeError(
                origin[c].arg,
                TypeAt("API", Base(origin[c].base), origin[c].path),
                TokIndex(DocOf(origin[c]), origin[c].path))
      /\ origin[c].var = "truncate"
           => ret[c].err = (IF origin[c].n = 0 /\ origin[c].arg = "clean"
                            THEN ErrEOF ELSE ErrUnexpectedEOF)

\* C7 witness: the sample document cut off after its first 7 tokens
C7_Witness ==
  /\ Done(1)
  /\ origin[1] = O("sample", "truncate", <<>>, 7, "clean")
  /\ ret[1].err = ErrUnexpectedEOF

\* C10: when further tokens follow the document, Parse returns no error
\* and the API of the document alone.
C10_FirstValueOnly ==
  \A c \in Calls :
    (Done(c) /\ origin[c].var = "trailing") =>
      /\ ret[c].err = NoErr
      /\ ret[c] = ParseAlone(BaseToks(origin[c]))
      /\ Carries(ret[c].api, "API", Base(origin[c].base))

\* C10 witness: the sample document followed by a byte that is no JSON
C10_Witness ==
  /\ Done(1)
  /\ origin[1] = O("sample", "trailing", <<BAD>>, 0, "garbage")
  /\ ~WellFormed(input[1])
  /\ ret[1].err = NoErr
  /\ ret[1].api.Version = "3.0.0"

\* C8: under any interleaving each call returns what it returns when it
\* runs alone on its input.
C8_CallsIndependent ==
  \A c \in Calls : Done(c) => ret[c] = ParseAlone(input[c])

\* C8 witness: two calls on different inputs have returned, one with an
\* API and one with an error
C8_Witness ==
  /\ Done(1) /\ Done(2)
  /\ origin[1] = O("sample", "none", <<>>, 0, "")
  /\ origin[2] = O("sample", "truncate", <<>>, 40, "clean")
  /\ ret[1].err = NoErr
  /\ ret[2].err = ErrUnexpectedEOF

\* C9: two calls on streams that carry the same valid document return
\* equal APIs and no error, however the streams cut the document up.
C9_Deterministic ==
  (Done(1) /\ Done(2) /\ input[1] = input[2]) =>
    /\ ret[1] = ret[2]
    /\ origin[1].var \in ValidVars => ret[1].err = NoErr /\ ret[2].err = NoErr

\* C9 witness: both calls have parsed the sample document
C9_Witness ==
  /\ Done(1) /\ Done(2)
  /\ origin[1] = O("sample", "none", <<>>, 0, "")
  /\ origin[2] = origin[1]
  /\ ret[1].err = NoErr
  /\ SampleFacts(ret[2].api)
====
